---- MODULE Spec2Model ----
(***************************************************************************)
(* Tabular-to-GeoJSON converters of the repository:                        *)
(*   data/convert-marathons-to-geojson.py   ("convert")                    *)
(*   data/update-marathon-data.py           ("download")                   *)
(*   scripts/update-marathon-data.py        ("fetch")                      *)
(*   scripts/csv_to_geojson.py              ("flex": solar + medical)      *)
(*                                                                         *)
(* Python str values are sequences of one-character tokens.  ASCII         *)
(* characters stand for themselves, any other character is written by its  *)
(* code point ("U00C3").  Python None, where a str is expected, is the     *)
(* one-token sequence PyNone, which no str equals.                         *)
(***************************************************************************)
EXTENDS Integers, Sequences, FiniteSets, TLC

\* ------------------------------------------------------------------ bounds
MaxRows == 2
MaxRuns == 2
MaxParts == 3

\* ------------------------------------------------------------- str helpers
PyNone == <<"None">>
NaNCell == <<"NaN">>

WS == {" ", "\t"}

Lowers == <<"a","b","c","d","e","f","g","h","i","j","k","l","m",
            "n","o","p","q","r","s","t","u","v","w","x","y","z">>
Uppers == <<"A","B","C","D","E","F","G","H","I","J","K","L","M",
            "N","O","P","Q","R","S","T","U","V","W","X","Y","Z">>

UpperChar(c) ==
    IF \E i \in 1..Len(Lowers) : Lowers[i] = c
    THEN Uppers[CHOOSE i \in 1..Len(Lowers) : Lowers[i] = c]
    ELSE c

LowerChar(c) ==
    IF \E i \in 1..Len(Uppers) : Uppers[i] = c
    THEN Lowers[CHOOSE i \in 1..Len(Uppers) : Uppers[i] = c]
    ELSE c

\* str.upper()
Upper(s) == [i \in 1..Len(s) |-> UpperChar(s[i])]

\* str.lower()
Lower(s) == [i \in 1..Len(s) |-> LowerChar(s[i])]

RECURSIVE LStrip(_)
LStrip(s) == IF s # <<>> /\ s[1] \in WS THEN LStrip(Tail(s)) ELSE s

RECURSIVE RStrip(_)
RStrip(s) ==
    IF s # <<>> /\ s[Len(s)] \in WS THEN RStrip(SubSeq(s, 1, Len(s) - 1)) ELSE s

\* str.strip()
Strip(s) == RStrip(LStrip(s))

\* str.replace(pat, rep): leftmost non-overlapping occurrences, pat non-empty
RECURSIVE Replace(_, _, _)
Replace(s, pat, rep) ==
    IF Len(s) < Len(pat) THEN s
    ELSE IF SubSeq(s, 1, Len(pat)) = pat
         THEN rep \o Replace(SubSeq(s, Len(pat) + 1, Len(s)), pat, rep)
         ELSE <<s[1]>> \o Replace(Tail(s), pat, rep)

\* pat in s
Contains(s, pat) ==
    \E i \in 1..(Len(s) - Len(pat) + 1) : SubSeq(s, i, i + Len(pat) - 1) = pat

\* str.split(sep) for a one-character sep
RECURSIVE Split(_, _)
Split(s, sep) ==
    IF \E i \in 1..Len(s) : s[i] = sep
    THEN LET k == CHOOSE i \in 1..Len(s) :
                     s[i] = sep /\ \A j \in 1..(i - 1) : s[j] # sep
         IN  <<SubSeq(s, 1, k - 1)>> \o Split(SubSeq(s, k + 1, Len(s)), sep)
    ELSE <<s>>

\* str.zfill(2)
Zfill2(s) ==
    IF Len(s) >= 2 THEN s
    ELSE IF s = <<>> THEN <<"0", "0">>
    ELSE IF s[1] \in {"+", "-"} THEN <<s[1], "0">>
    ELSE <<"0", s[1]>>

\* ------------------------------------------------------------------ floats
\* A Python float (or None) is [kind, n]: kind "num" carries the value n,
\* kind "nan" is float('nan'), kind "none" is None.
Num(n) == [kind |-> "num", n |-> n]
NaN == [kind |-> "nan", n |-> 0]
NoFloat == [kind |-> "none", n |-> 0]

Digits == <<"0","1","2","3","4","5","6","7","8","9">>
IsDigit(c) == \E i \in 1..Len(Digits) : Digits[i] = c
DigitVal(c) == (CHOOSE i \in 1..Len(Digits) : Digits[i] = c) - 1

RECURSIVE DecVal(_)
DecVal(s) ==
    IF s = <<>> THEN 0
    ELSE DecVal(SubSeq(s, 1, Len(s) - 1)) * 10 + DigitVal(s[Len(s)])

\* float(s) on the literals the tables hold: [ws] [sign] digits [ws], or
\* "nan" in any case; anything else raises ValueError (NoFloat here).
PyFloat(s) ==
    LET t == Strip(s)
        signed == t # <<>> /\ t[1] \in {"+", "-"}
        body == IF signed THEN Tail(t) ELSE t
    IN  IF Lower(body) = <<"n", "a", "n">> THEN NaN
        ELSE IF body # <<>> /\ \A i \in 1..Len(body) : IsDigit(body[i])
             THEN Num(IF signed /\ t[1] = "-" THEN 0 - DecVal(body) ELSE DecVal(body))
             ELSE NoFloat

\* --------------------------------------------------- the four programs
CONVERT == "convert"
DOWNLOAD == "download"
FETCH == "fetch"
FLEX == "flex"
Scripts == {CONVERT, DOWNLOAD, FETCH, FLEX}

\* ------------------------------------------------ cleaning functions
\* The minus-sign glyph clean_coordinate replaces: U+2212 in
\* convert-marathons-to-geojson.py, a three-character mis-decoded form of
\* it in data/update-marathon-data.py.
MinusGlyph(script) ==
    IF script = CONVERT THEN <<"U2212">> ELSE <<"U201A", "U00E0", "U00ED">>

\* clean_coordinate(coord_str) of the marathon converters
clean_coordinate(script, coord_str) ==
    IF coord_str = PyNone \/ coord_str = <<>> \/ Strip(coord_str) = <<>>
    THEN NoFloat
    ELSE PyFloat(Strip(Replace(coord_str, MinusGlyph(script), <<"-">>)))

\* (variant: the right-quote line moved below the two dash lines)
ReplacementsConvert_RightQuoteLast ==
    << <<<<"U00C3", "U00A9">>, <<"U00E9">>>>,
       <<<<"U00C3", "U00A8">>, <<"U00E8">>>>,
       <<<<"U00C3", "U00A1">>, <<"U00E1">>>>,
       <<<<"U00C3", "U00AD">>, <<"U00ED">>>>,
       <<<<"U00C3", "U00B3">>, <<"U00F3">>>>,
       <<<<"U00C3", "U00BC">>, <<"U00FC">>>>,
       <<<<"U00C3", "U00B1">>, <<"U00F1">>>>,
       <<<<"U00C3", "U00A7">>, <<"U00E7">>>>,
       <<<<"U00E2", "U20AC", "U2122">>, <<"'">>>>,
       <<<<"U00E2", "U20AC", "U0153">>, <<"\"">>>>,
       <<<<"U00E2", "U20AC", "\"">>, <<"U2013">>>>,
       <<<<"U00E2", "U20AC", "\"">>, <<"U2014">>>>,
       <<<<"U00E2", "U20AC">>, <<"\"">>>> >>

\* The replacement table of clean_text, in source order: <<pattern, replacement>>.
ReplacementsConvert ==
    << <<<<"U00C3", "U00A9">>, <<"U00E9">>>>,
       <<<<"U00C3", "U00A8">>, <<"U00E8">>>>,
       <<<<"U00C3", "U00A1">>, <<"U00E1">>>>,
       <<<<"U00C3", "U00AD">>, <<"U00ED">>>>,
       <<<<"U00C3", "U00B3">>, <<"U00F3">>>>,
       <<<<"U00C3", "U00BC">>, <<"U00FC">>>>,
       <<<<"U00C3", "U00B1">>, <<"U00F1">>>>,
       <<<<"U00C3", "U00A7">>, <<"U00E7">>>>,
       <<<<"U00E2", "U20AC", "U2122">>, <<"'">>>>,
       <<<<"U00E2", "U20AC", "U0153">>, <<"\"">>>>,
       <<<<"U00E2", "U20AC">>, <<"\"">>>>,
       <<<<"U00E2", "U20AC", "\"">>, <<"U2013">>>>,
       <<<<"U00E2", "U20AC", "\"">>, <<"U2014">>>> >>

ReplacementsDownload ==
    << <<<<"U221A", "U00A2">>, <<"-">>>>,
       <<<<"U221A", "U00C9", "U00AC", "U00A9">>, <<"U221A", "U00A9">>>>,
       <<<<"U221A", "U00C9", "U00AC", "U00AE">>, <<"U221A", "U00AE">>>>,
       <<<<"U221A", "U00C9", "U00AC", "U00B0">>, <<"U221A", "U00B0">>>>,
       <<<<"U221A", "U00C9", "U00AC", "U2260">>, <<"U221A", "U2260">>>>,
       <<<<"U221A", "U00C9", "U00AC", "U2265">>, <<"U221A", "U2265">>>>,
       <<<<"U221A", "U00C9", "U00AC", "U00BA">>, <<"U221A", "U00BA">>>>,
       <<<<"U221A", "U00C9", "U00AC", "U00B1">>, <<"U221A", "U00B1">>>>,
       <<<<"U221A", "U00C9", "U00AC", "U00DF">>, <<"U221A", "U00DF">>>>,
       <<<<"U221A", "U00A2", "U201A", "U00C7", "U00A8", "U201A", "U00D1", "U00A2">>,
         <<"'">>>>,
       <<<<"U221A", "U00A2", "U201A", "U00C7", "U00A8", "U2248", "U00EC">>,
         <<"\"">>>>,
       <<<<"U221A", "U00A2", "U201A", "U00C7", "U00A8">>, <<"\"">>>>,
       <<<<"U221A", "U00A2", "U201A", "U00C7", "U00A8", "\"">>,
         <<"U201A", "U00C4", "U00EC">>>>,
       <<<<"U221A", "U00A2", "U201A", "U00C7", "U00A8", "\"">>,
         <<"U201A", "U00C4", "U00EE">>>> >>

Replacements(script) ==
    IF script = CONVERT THEN ReplacementsConvert ELSE ReplacementsDownload

\* text after the first k entries of the table have been applied in order
RECURSIVE ApplyReplacements(_, _, _)
ApplyReplacements(text, table, k) ==
    IF k = 0 THEN text
    ELSE Replace(ApplyReplacements(text, table, k - 1), table[k][1], table[k][2])

\* clean_text(text)
clean_text(script, text) ==
    IF text = PyNone \/ text = <<>> THEN <<>>
    ELSE Strip(ApplyReplacements(text, Replacements(script),
                                 Len(Replacements(script))))

\* parse_date(date_str): None for a missing or blank cell
parse_date(date_str) ==
    IF date_str = PyNone \/ date_str = <<>> \/ Strip(date_str) = <<>>
    THEN PyNone
    ELSE LET d == Strip(date_str)
             parts == Split(d, "/")
         IN  IF Contains(d, <<"/">>) /\ Len(parts) = 3
             THEN parts[3] \o <<"-">> \o Zfill2(parts[2]) \o <<"-">> \o Zfill2(parts[1])
             ELSE d

\* ------------------------------------------------------------ input tables
\* Column names
COL_SHOWQ == <<"s", "h", "o", "w", "?">>
COL_LAT == <<"l", "a", "t">>
COL_LON == <<"l", "o", "n">>
COL_NAME == <<"N", "a", "m", "e">>
COL_CITY == <<"C", "i", "t", "y">>
COL_DATE == <<"D", "a", "t", "e">>
COL_LONGITUDE == <<"L", "o", "n", "g", "i", "t", "u", "d", "e">>
COL_LATITUDE == <<"L", "a", "t", "i", "t", "u", "d", "e">>
COL_SHOW == <<"s", "h", "o", "w">>
COL_LNG == <<"l", "n", "g">>
COL_PLATFORM == <<"p", "l", "a", "t", "f", "o", "r", "m">>
COL_NAME_LC == <<"n", "a", "m", "e">>

S_TRUE == <<"T", "R", "U", "E">>
S_REF == <<"#", "R", "E", "F", "!">>

Range(f) == {f[x] : x \in DOMAIN f}
Min(a, b) == IF a < b THEN a ELSE b
IndexOf(seq, x) == CHOOSE i \in 1..Len(seq) : seq[i] = x

\* A source is [status, header, rows]: header is the first line's cells, rows
\* the cells of each following line, in order; a short line has fewer cells
\* than the header.
OK == "ok"
UNREACHABLE == "unreachable"
UNPARSEABLE == "unparseable"
NoTable(status) == [status |-> status, header |-> <<>>, rows |-> <<>>]

\* One line of a table: the cells of the logical row lr (column name -> cell)
\* laid out in the header's order, cut after n cells.
Line(header, lr, n) ==
    [i \in 1..Min(n, Len(header)) |-> lr[Lower(Strip(header[i]))]]

\* All tables with the given header and at most MaxRows lines drawn from pool
\* (pairs <<logical row, number of cells>>).
RECURSIVE SeqsUpTo(_, _)
SeqsUpTo(S, n) ==
    IF n = 0 THEN {<<>>}
    ELSE LET shorter == SeqsUpTo(S, n - 1)
         IN  shorter \cup {Append(q, x) : q \in {r \in shorter : Len(r) = n - 1}, x \in S}

TablesOf(headers, pool) ==
    {[status |-> OK, header |-> h,
      rows |-> [i \in 1..Len(q) |-> Line(h, q[i][1], q[i][2])]] :
        h \in headers, q \in SeqsUpTo(pool, MaxRows)}

\* Lines of the marathon sheets: <<column name (lower case) -> cell, number
\* of cells on the line>>.
M1 ==
    << (<<"s", "h", "o", "w", "?">> :> <<"T", "R", "U", "E">>) @@
         (<<"l", "a", "t">> :> <<"4", "5">>) @@
         (<<"l", "o", "n">> :> <<"1", "2", "0">>) @@
         (<<"n", "a", "m", "e">> :> <<"A">>) @@
         (<<"c", "i", "t", "y">> :> <<"B">>) @@
         (<<"d", "a", "t", "e">> :> <<"2", "5", "/", "1", "2", "/", "2", "0", "2", "4">>),
       6 >>
M2 ==
    << (<<"s", "h", "o", "w", "?">> :> <<" ", "t", "r", "u", "e", " ">>) @@
         (<<"l", "a", "t">> :> <<"U2212", "4", "5">>) @@
         (<<"l", "o", "n">> :> <<" ", "7", " ">>) @@
         (<<"n", "a", "m", "e">> :> <<"U00C3", "U00A9">>) @@
         (<<"c", "i", "t", "y">> :> <<" ", "B", " ">>) @@
         (<<"d", "a", "t", "e">> :> <<>>),
       6 >>
M3 ==
    << (<<"s", "h", "o", "w", "?">> :> <<"F", "A", "L", "S", "E">>) @@
         (<<"l", "a", "t">> :> <<"4", "5">>) @@
         (<<"l", "o", "n">> :> <<"1", "2", "0">>) @@
         (<<"n", "a", "m", "e">> :> <<"A">>) @@
         (<<"c", "i", "t", "y">> :> <<"B">>) @@
         (<<"d", "a", "t", "e">> :> <<"1", "/", "2", "/", "2", "0", "2", "4">>),
       6 >>
M4 ==
    << (<<"s", "h", "o", "w", "?">> :> <<"T", "R", "U", "E">>) @@
         (<<"l", "a", "t">> :> <<"a", "b", "c">>) @@
         (<<"l", "o", "n">> :> <<"1", "2", "0">>) @@
         (<<"n", "a", "m", "e">> :> <<"A">>) @@
         (<<"c", "i", "t", "y">> :> <<"B">>) @@
         (<<"d", "a", "t", "e">> :> <<"n", "o", "t", "-", "a", "-", "d", "a", "t", "e">>),
       6 >>
M5 ==
    << (<<"s", "h", "o", "w", "?">> :> <<"T", "R", "U", "E">>) @@
         (<<"l", "a", "t">> :> <<"2", "0", "0">>) @@
         (<<"l", "o", "n">> :> <<"7">>) @@
         (<<"n", "a", "m", "e">> :> <<"A">>) @@
         (<<"c", "i", "t", "y">> :> <<"B">>) @@
         (<<"d", "a", "t", "e">> :> <<" ", "1", "/", "2", " ">>),
       6 >>
M6 ==
    << (<<"s", "h", "o", "w", "?">> :> <<"T", "R", "U", "E">>) @@
         (<<"l", "a", "t">> :> <<"4", "5">>) @@
         (<<"l", "o", "n">> :> <<"1", "2", "0">>) @@
         (<<"n", "a", "m", "e">> :> <<" ", "#", "R", "E", "F", "!", " ">>) @@
         (<<"c", "i", "t", "y">> :> <<"B">>) @@
         (<<"d", "a", "t", "e">> :> <<"1", "/", "2", "/", "2", "0", "2", "4">>),
       6 >>
M7 ==
    << (<<"s", "h", "o", "w", "?">> :> <<"T", "R", "U", "E">>) @@
         (<<"l", "a", "t">> :> <<"4", "5">>) @@
         (<<"l", "o", "n">> :> <<"1", "2", "0">>) @@
         (<<"n", "a", "m", "e">> :> <<"A">>) @@
         (<<"c", "i", "t", "y">> :> <<" ">>) @@
         (<<"d", "a", "t", "e">> :> <<"1", "/", "2", "/", "2", "0", "2", "4">>),
       6 >>
M8 ==
    << (<<"s", "h", "o", "w", "?">> :> <<"T", "R", "U", "E">>) @@
         (<<"l", "a", "t">> :> <<"4", "5">>) @@
         (<<"l", "o", "n">> :> <<"1", "2", "0">>) @@
         (<<"n", "a", "m", "e">> :> <<"A">>) @@
         (<<"c", "i", "t", "y">> :> <<"B">>) @@
         (<<"d", "a", "t", "e">> :> <<"1", "/", "2", "/", "2", "0", "2", "4">>),
       2 >>
MarathonPool == {M1, M2, M3, M4, M5, M6, M7, M8}
MarathonHeaders ==
    {<<COL_SHOWQ, COL_LAT, COL_LON, COL_NAME, COL_CITY, COL_DATE>>,
     <<COL_DATE, COL_CITY, COL_NAME, COL_LON, COL_LAT, COL_SHOWQ>>}

\* ------------------------------------------- csv.DictReader and row.get
\* csv.DictReader: a row maps every header name to its cell; the names past
\* the end of a short line map to None (restval).
DictReader(header, line) ==
    [c \in Range(header) |->
        IF IndexOf(header, c) <= Len(line) THEN line[IndexOf(header, c)] ELSE PyNone]

\* row.get(key, '')
Get(row, key) == IF key \in DOMAIN row THEN row[key] ELSE <<>>

\* ------------------------------------- marathon converters, per-row checks
\* (variant: any non-empty flag passes)
ShowIsTrue_AnyValue(row) == Upper(Strip(Get(row, COL_SHOWQ))) # <<>>

\* show_value = row.get('show?', '').strip().upper(); passes when 'TRUE'
ShowIsTrue(row) == Upper(Strip(Get(row, COL_SHOWQ))) = S_TRUE

\* not (lat is None or lon is None)
CoordsPresent(lat, lon) == ~(lat.kind = "none" \/ lon.kind = "none")

\* (variant: the sentinel is not checked)
RequiredPresent_NoSentinel(name, city) == ~(name = <<>> \/ city = <<>>)

\* not (not name or name == '#REF!' or not city or city == '#REF!')
RequiredPresent(name, city) ==
    ~(name = <<>> \/ name = S_REF \/ city = <<>> \/ city = S_REF)

\* (variant: coordinates written as [lat, lon])
MarathonFeature_LatFirst(script, row_num, row, lat, lon, name, city) ==
    [row_num |-> row_num,
     coordinates |-> <<lat, lon>>,
     properties |-> [name |-> name,
                     city |-> city,
                     date |-> parse_date(Get(row, COL_DATE))]]

\* the feature dict; row_num is carried along to tell which line a feature
\* was built from (the output itself does not hold it)
MarathonFeature(script, row_num, row, lat, lon, name, city) ==
    [row_num |-> row_num,
     coordinates |-> <<lon, lat>>,
     properties |-> [name |-> name,
                     city |-> city,
                     date |-> parse_date(Get(row, COL_DATE))]]

\* (variant: features.insert(0, feature))
AppendFeature_AtFront(features, feature) == <<feature>> \o features

\* features.append(feature)
AppendFeature(features, feature) == Append(features, feature)

\* (variant: the flag branch continues without counting)
CountSkip_NotForFlag(outcome, count) ==
    IF outcome = "skip_show" THEN count ELSE count + 1

\* skipped_count += 1, in each of the three branches that end in `continue`
CountSkip(outcome, count) == count + 1

\* What the loop body does with one row: "raise" (str method called on None,
\* AttributeError), a skip, or "append".
MarathonOutcome(script, row) ==
    IF Get(row, COL_SHOWQ) = PyNone THEN "raise"
    ELSE IF ~ShowIsTrue(row) THEN "skip_show"
    ELSE IF Get(row, COL_LAT) = PyNone \/ Get(row, COL_LON) = PyNone THEN "raise"
    ELSE IF ~CoordsPresent(clean_coordinate(script, Strip(Get(row, COL_LAT))),
                           clean_coordinate(script, Strip(Get(row, COL_LON))))
         THEN "skip_coords"
    ELSE IF ~RequiredPresent(clean_text(script, Get(row, COL_NAME)),
                             clean_text(script, Get(row, COL_CITY)))
         THEN "skip_required"
    ELSE "append"

\* --------------------------------------------------------------- pandas
\* pd.read_csv: an empty cell, and a cell a short line lacks, is NaN
\* (the tables here hold no other NA literal).
ReadCell(c) == IF c = <<>> THEN NaNCell ELSE c

\* one DataFrame row per line: column name -> cell
DataFrameRows(header, lines) ==
    [k \in 1..Len(lines) |->
        [c \in Range(header) |->
            IF IndexOf(header, c) <= Len(lines[k])
            THEN ReadCell(lines[k][IndexOf(header, c)])
            ELSE NaNCell]]

\* pd.to_numeric(value, errors='coerce')
to_numeric(cell) ==
    IF cell = NaNCell THEN NaN
    ELSE IF PyFloat(cell).kind = "none" THEN NaN ELSE PyFloat(cell)

\* pd.isna(x)
isna(x) == x.kind = "nan"

\* str(value) if pd.notna(value) else ""
StrOrEmpty(cell) == IF cell = NaNCell THEN <<>> ELSE cell

\* ------------------------------ scripts/update-marathon-data.py, per row
\* df.columns.str.strip()
StrippedColumns(header) == [k \in 1..Len(header) |-> Strip(header[k])]

\* -90 <= lat <= 90 and -180 <= lon <= 180
InRange(lat, lon) ==
    /\ 0 - 90 <= lat.n /\ lat.n <= 90
    /\ 0 - 180 <= lon.n /\ lon.n <= 180

FetchFeature(line, columns, row, lat, lon) ==
    [row_num |-> line,
     coordinates |-> <<lon, lat>>,
     properties |-> [c \in Range(columns) \ {COL_LONGITUDE, COL_LATITUDE} |->
                        StrOrEmpty(row[c])]]

\* What the loop body does with one row: "keyerror" (caught by the inner
\* except), a skip, or "append".
FetchOutcome(columns, row) ==
    IF COL_LONGITUDE \notin Range(columns) \/ COL_LATITUDE \notin Range(columns)
    THEN "keyerror"
    ELSE IF isna(to_numeric(row[COL_LATITUDE])) \/ isna(to_numeric(row[COL_LONGITUDE]))
         THEN "skip_missing"
    ELSE IF ~InRange(to_numeric(row[COL_LATITUDE]), to_numeric(row[COL_LONGITUDE]))
         THEN "skip_range"
    ELSE "append"

\* ---------------------------------------------- scripts/csv_to_geojson.py
\* df.columns.str.strip().str.lower()
LoweredColumns(header) == [k \in 1..Len(header) |-> Lower(Strip(header[k]))]

\* if 'lat' in col.lower(): ...  /  elif 'lon' in col.lower() or 'lng' in ...
IsLatName(col) == Contains(Lower(col), COL_LAT)
IsLonName(col) == Contains(Lower(col), COL_LON) \/ Contains(Lower(col), COL_LNG)

\* lat_col and lon_col after the loop has seen the first k columns
RECURSIVE FindCols(_, _)
FindCols(columns, k) ==
    IF k = 0 THEN [lat_col |-> PyNone, lon_col |-> PyNone]
    ELSE LET prev == FindCols(columns, k - 1)
             col == columns[k]
         IN  IF IsLatName(col)
             THEN [prev EXCEPT !.lat_col = col]
             ELSE IF IsLonName(col)
                  THEN [prev EXCEPT !.lon_col = col]
                  ELSE prev

\* df['show'].astype(str).str.upper().str.strip() == 'TRUE'; str(NaN) is 'nan'
ShowNormalised(cell) ==
    Strip(Upper(IF cell = NaNCell THEN <<"n", "a", "n">> ELSE cell))

FlexShowPasses(columns, row) ==
    COL_SHOW \in Range(columns) => ShowNormalised(row[COL_SHOW]) = S_TRUE

\* both dropna calls around to_numeric: the row stays when both cells are
\* present and numeric
FlexCoordsPresent(row, latc, lonc) ==
    /\ row[latc] # NaNCell /\ row[lonc] # NaNCell
    /\ ~isna(to_numeric(row[latc])) /\ ~isna(to_numeric(row[lonc]))

FlexFeature(line, columns, row, latc, lonc) ==
    [row_num |-> line,
     coordinates |-> <<to_numeric(row[lonc]), to_numeric(row[latc])>>,
     properties |-> [c \in Range(columns) \ {latc, lonc} |->
                        IF c = COL_SHOW THEN ShowNormalised(row[c])
                        ELSE StrOrEmpty(row[c])]]

\* the features of the rows the DataFrame still holds, in its order
FlexFeatures(columns, dfrows, latc, lonc) ==
    LET Keep(k) == /\ FlexCoordsPresent(dfrows[k], latc, lonc)
                   /\ FlexShowPasses(columns, dfrows[k])
        kept == SelectSeq([k \in 1..Len(dfrows) |-> k], Keep)
    IN  [j \in 1..Len(kept) |-> FlexFeature(kept[j], columns, dfrows[kept[j]], latc, lonc)]

\* Lines of the sheet scripts/update-marathon-data.py reads.
F1 ==
    << (<<"l", "o", "n", "g", "i", "t", "u", "d", "e">> :> <<"1", "2", "0">>) @@
         (<<"l", "a", "t", "i", "t", "u", "d", "e">> :> <<"4", "5">>) @@
         (<<"n", "a", "m", "e">> :> <<"A">>),
       3 >>
F2 ==
    << (<<"l", "o", "n", "g", "i", "t", "u", "d", "e">> :> <<"7">>) @@
         (<<"l", "a", "t", "i", "t", "u", "d", "e">> :> <<"2", "0", "0">>) @@
         (<<"n", "a", "m", "e">> :> <<"A">>),
       3 >>
F3 ==
    << (<<"l", "o", "n", "g", "i", "t", "u", "d", "e">> :> <<"a", "b", "c">>) @@
         (<<"l", "a", "t", "i", "t", "u", "d", "e">> :> <<"4", "5">>) @@
         (<<"n", "a", "m", "e">> :> <<"B">>),
       3 >>
F4 ==
    << (<<"l", "o", "n", "g", "i", "t", "u", "d", "e">> :> <<>>) @@
         (<<"l", "a", "t", "i", "t", "u", "d", "e">> :> <<"4", "5">>) @@
         (<<"n", "a", "m", "e">> :> <<"A">>),
       3 >>
F5 ==
    << (<<"l", "o", "n", "g", "i", "t", "u", "d", "e">> :> <<"-", "1", "8", "0">>) @@
         (<<"l", "a", "t", "i", "t", "u", "d", "e">> :> <<"-", "9", "0">>) @@
         (<<"n", "a", "m", "e">> :> <<>>),
       3 >>
FetchPool == {F1, F2, F3, F4, F5}
FetchHeaders ==
    {<<COL_LONGITUDE, COL_LATITUDE, COL_NAME>>,
     <<<<" ", "L", "a", "t", "i", "t", "u", "d", "e", " ">>, COL_LONGITUDE, COL_NAME>>,
     <<COL_LATITUDE, COL_NAME>>}

\* Lines of the solar and medical sheets.
X1 ==
    << (<<"l", "a", "t">> :> <<"4", "5">>) @@
         (<<"l", "o", "n">> :> <<"1", "2", "0">>) @@
         (<<"l", "n", "g">> :> <<"1", "0", "0">>) @@
         (<<"n", "a", "m", "e">> :> <<"A">>) @@
         (<<"s", "h", "o", "w">> :> <<"T", "R", "U", "E">>) @@
         (<<"p", "l", "a", "t", "f", "o", "r", "m">> :> <<"9">>),
       6 >>
X2 ==
    << (<<"l", "a", "t">> :> <<"4", "6">>) @@
         (<<"l", "o", "n">> :> <<"1", "2", "1">>) @@
         (<<"l", "n", "g">> :> <<"1", "0", "1">>) @@
         (<<"n", "a", "m", "e">> :> <<"B">>) @@
         (<<"s", "h", "o", "w">> :> <<" ", "t", "r", "u", "e", " ">>) @@
         (<<"p", "l", "a", "t", "f", "o", "r", "m">> :> <<"a", "b", "c">>),
       6 >>
X3 ==
    << (<<"l", "a", "t">> :> <<"4", "7">>) @@
         (<<"l", "o", "n">> :> <<"1", "2", "2">>) @@
         (<<"l", "n", "g">> :> <<"1", "0", "2">>) @@
         (<<"n", "a", "m", "e">> :> <<"A">>) @@
         (<<"s", "h", "o", "w">> :> <<"F", "A", "L", "S", "E">>) @@
         (<<"p", "l", "a", "t", "f", "o", "r", "m">> :> <<"9">>),
       6 >>
X4 ==
    << (<<"l", "a", "t">> :> <<"2", "0", "0">>) @@
         (<<"l", "o", "n">> :> <<"7">>) @@
         (<<"l", "n", "g">> :> <<"8">>) @@
         (<<"n", "a", "m", "e">> :> <<"A">>) @@
         (<<"s", "h", "o", "w">> :> <<"T", "R", "U", "E">>) @@
         (<<"p", "l", "a", "t", "f", "o", "r", "m">> :> <<"3", "0", "0">>),
       6 >>
X5 ==
    << (<<"l", "a", "t">> :> <<>>) @@
         (<<"l", "o", "n">> :> <<"1", "2", "0">>) @@
         (<<"l", "n", "g">> :> <<"1", "0", "0">>) @@
         (<<"n", "a", "m", "e">> :> <<"A">>) @@
         (<<"s", "h", "o", "w">> :> <<"T", "R", "U", "E">>) @@
         (<<"p", "l", "a", "t", "f", "o", "r", "m">> :> <<"9">>),
       6 >>
FlexPool == {X1, X2, X3, X4, X5}
FlexHeaders ==
    {<<<<" ", "L", "a", "t">>, <<"L", "O", "N">>, COL_NAME_LC, COL_SHOW>>,
     <<COL_LNG, COL_LAT, COL_NAME_LC>>,
     <<COL_LAT, COL_LON, COL_PLATFORM, COL_SHOW>>,
     <<COL_LAT, COL_LON, COL_LNG, COL_SHOW>>,
     <<COL_NAME_LC, COL_SHOW>>}

\* The sources each program may find.
Sources(script) ==
    IF script \in {CONVERT, DOWNLOAD}
    THEN TablesOf(MarathonHeaders, MarathonPool) \cup {NoTable(UNREACHABLE)}
    ELSE IF script = FETCH
    THEN TablesOf(FetchHeaders, FetchPool) \cup {NoTable(UNREACHABLE), NoTable(UNPARSEABLE)}
    ELSE TablesOf(FlexHeaders, FlexPool) \cup {NoTable(UNREACHABLE), NoTable(UNPARSEABLE)}

\* The medical sheet of csv_to_geojson.py (the other programs read one sheet).
MedicalSources(script) ==
    IF script = FLEX
    THEN {NoTable(UNREACHABLE),
          [status |-> OK, header |-> <<COL_LAT, COL_LON, COL_NAME_LC>>,
           rows |-> <<Line(<<COL_LAT, COL_LON, COL_NAME_LC>>, X1[1], X1[2])>>]}
    ELSE {NoTable("unused")}

\* ------------------------------------------------------------------- state
VARIABLES
    script,           \* which program runs
    table,            \* the sheet or file the program reads
    medical,          \* the second sheet of csv_to_geojson.py
    files,            \* output path -> content
    pc,               \* where the run is
    exit_status,      \* process exit status, -1 while running
    run,              \* how many times the program has been started
    now,              \* datetime.now() of the current run
    i,                \* lines consumed by the row loop
    features,         \* features list of the running converter
    skipped_count,
    processed_count,
    lat_col,          \* csv_to_geojson.py: columns found by the sniffing loop
    lon_col,
    geojsons,         \* csv_to_geojson.py main: solar_geojson, medical_geojson
    given,            \* clean_text: the argument as the caller passed it
    text,             \* clean_text: its variable `text`
    entry             \* clean_text: how many replace lines have run

vars == <<script, table, medical, files, pc, exit_status, run, now, i, features,
          skipped_count, processed_count, lat_col, lon_col, geojsons,
          given, text, entry>>

RUNNING == 0 - 1

\* Output paths: argv[2] of the converter, or the path the script names.
Paths(s) ==
    IF s = CONVERT THEN {"output.geojson"}
    ELSE IF s = DOWNLOAD THEN {"data/marathons.geojson"}
    ELSE IF s = FETCH THEN {"public/marathons.geojson"}
    ELSE {"data/solar.geojson", "data/medical.geojson", "data/combined.geojson"}

\* File contents: no file, a file left by an earlier deployment, or the JSON
\* of a FeatureCollection (metadata is <<>> when the collection has none).
Absent == [kind |-> "absent", features |-> <<>>, metadata |-> <<>>]
Old == [kind |-> "old", features |-> <<>>, metadata |-> <<>>]
GeoJson(fs, metadata) == [kind |-> "geojson", features |-> fs, metadata |-> metadata]

\* "metadata" of data/update-marathon-data.py
Metadata(fs, time) ==
    <<[last_updated |-> time, source |-> "Google Sheets", total_features |-> Len(fs)]>>

\* (variant: open(path, 'a'), the new features follow the old ones)
WriteFile_Appending(previous, document) ==
    IF previous.kind = "geojson"
    THEN [document EXCEPT !.features = previous.features \o document.features]
    ELSE document

\* open(path, 'w') + json.dump: the new document replaces whatever was there
WriteFile(previous, document) == document

FirstPc(s) == IF s = FLEX THEN "solar_find" ELSE "start"

Locals ==
    /\ i = 0
    /\ features = <<>>
    /\ skipped_count = 0
    /\ processed_count = 0
    /\ lat_col = PyNone
    /\ lon_col = PyNone
    /\ geojsons = [solar |-> <<>>, medical |-> <<>>]

Init ==
    /\ script \in Scripts
    /\ table \in Sources(script)
    /\ medical \in MedicalSources(script)
    /\ files \in {[p \in Paths(script) |-> Absent], [p \in Paths(script) |-> Old]}
    /\ pc = FirstPc(script)
    /\ exit_status = RUNNING
    /\ run = 1
    /\ now = 1
    /\ Locals
    /\ given = <<>>
    /\ text = <<>>
    /\ entry = 0

\* ------------------------------------------- the two marathon converters
\* open(csv_file_path) / requests.get + raise_for_status: a failure ends the
\* run with status 1 (uncaught in the converter, `return False` in the
\* updater) before anything is written.
MarathonOpen ==
    /\ script \in {CONVERT, DOWNLOAD}
    /\ pc = "start"
    /\ IF table.status = OK
       THEN pc' = "loop" /\ exit_status' = exit_status
       ELSE pc' = "done" /\ exit_status' = 1
    /\ UNCHANGED <<given, text, entry, script, table, medical, files, run, now, i, features,
                   skipped_count, processed_count, lat_col, lon_col, geojsons>>

\* one iteration of `for row_num, row in enumerate(reader, start=2)`
MarathonRow ==
    /\ script \in {CONVERT, DOWNLOAD}
    /\ pc = "loop"
    /\ i < Len(table.rows)
    /\ LET row == DictReader(table.header, table.rows[i + 1])
           outcome == MarathonOutcome(script, row)
       IN  /\ i' = i + 1
           /\ IF outcome = "raise"
              THEN /\ pc' = "done"
                   /\ exit_status' = 1
                   /\ UNCHANGED <<features, skipped_count, processed_count>>
              ELSE IF outcome = "append"
              THEN /\ features' =
                        AppendFeature(features,
                            MarathonFeature(script, i + 1, row,
                                clean_coordinate(script, Strip(Get(row, COL_LAT))),
                                clean_coordinate(script, Strip(Get(row, COL_LON))),
                                clean_text(script, Get(row, COL_NAME)),
                                clean_text(script, Get(row, COL_CITY))))
                   /\ processed_count' = processed_count + 1
                   /\ UNCHANGED <<pc, exit_status, skipped_count>>
              ELSE /\ skipped_count' = CountSkip(outcome, skipped_count)
                   /\ UNCHANGED <<pc, exit_status, features, processed_count>>
    /\ UNCHANGED <<given, text, entry, script, table, medical, files, run, now, lat_col, lon_col, geojsons>>

\* after the loop: build the collection and json.dump it over the output file
MarathonWrite ==
    /\ script \in {CONVERT, DOWNLOAD}
    /\ pc = "loop"
    /\ i = Len(table.rows)
    /\ files' = [p \in Paths(script) |->
                    WriteFile(files[p],
                        GeoJson(features,
                                IF script = DOWNLOAD THEN Metadata(features, now) ELSE <<>>))]
    /\ pc' = "done"
    /\ exit_status' = 0
    /\ UNCHANGED <<given, text, entry, script, table, medical, run, now, i, features,
                   skipped_count, processed_count, lat_col, lon_col, geojsons>>

\* ------------------------------------- scripts/update-marathon-data.py
\* requests.get, pd.read_csv: any exception is caught by the outer except,
\* which returns an empty collection to main
FetchGet ==
    /\ script = FETCH
    /\ pc = "start"
    /\ pc' = IF table.status = OK THEN "loop" ELSE "write"
    /\ UNCHANGED <<given, text, entry, script, table, medical, files, exit_status, run, now, i, features,
                   skipped_count, processed_count, lat_col, lon_col, geojsons>>

\* one iteration of `for idx, row in df.iterrows()`
FetchRow ==
    /\ script = FETCH
    /\ pc = "loop"
    /\ i < Len(table.rows)
    /\ LET columns == StrippedColumns(table.header)
           row == DataFrameRows(columns, table.rows)[i + 1]
       IN  /\ i' = i + 1
           /\ features' =
                IF FetchOutcome(columns, row) = "append"
                THEN AppendFeature(features,
                        FetchFeature(i + 1, columns, row,
                                     to_numeric(row[COL_LATITUDE]),
                                     to_numeric(row[COL_LONGITUDE])))
                ELSE features
    /\ UNCHANGED <<given, text, entry, script, table, medical, files, pc, exit_status, run, now,
                   skipped_count, processed_count, lat_col, lon_col, geojsons>>

\* return geojson
FetchReturn ==
    /\ script = FETCH
    /\ pc = "loop"
    /\ i = Len(table.rows)
    /\ pc' = "write"
    /\ UNCHANGED <<given, text, entry, script, table, medical, files, exit_status, run, now, i, features,
                   skipped_count, processed_count, lat_col, lon_col, geojsons>>

\* main: json.dump(geojson_data) over public/marathons.geojson
FetchMainWrite ==
    /\ script = FETCH
    /\ pc = "write"
    /\ files' = [p \in Paths(script) |-> WriteFile(files[p], GeoJson(features, <<>>))]
    /\ pc' = "done"
    /\ exit_status' = 0
    /\ UNCHANGED <<given, text, entry, script, table, medical, run, now, i, features,
                   skipped_count, processed_count, lat_col, lon_col, geojsons>>

\* ------------------------------------------------ scripts/csv_to_geojson.py
SheetOf(which) == IF which = "solar" THEN table ELSE medical
NextPc(which) == IF which = "solar" THEN "medical_find" ELSE "write"

\* fetch_and_convert_solar / _medical up to the check of lat_col and lon_col:
\* a failed fetch or parse, or a missing column, returns an empty collection
FlexFind(which) ==
    /\ script = FLEX
    /\ pc = IF which = "solar" THEN "solar_find" ELSE "medical_find"
    /\ LET sheet == SheetOf(which)
           columns == LoweredColumns(sheet.header)
           found == FindCols(columns, Len(columns))
       IN  IF sheet.status # OK
           THEN /\ geojsons' = [geojsons EXCEPT ![which] = <<>>]
                /\ pc' = NextPc(which)
                /\ lat_col' = PyNone
                /\ lon_col' = PyNone
           ELSE /\ lat_col' = found.lat_col
                /\ lon_col' = found.lon_col
                /\ IF found.lat_col = PyNone \/ found.lon_col = PyNone
                   THEN /\ geojsons' = [geojsons EXCEPT ![which] = <<>>]
                        /\ pc' = NextPc(which)
                   ELSE /\ geojsons' = geojsons
                        /\ pc' = IF which = "solar" THEN "solar_build" ELSE "medical_build"
    /\ UNCHANGED <<given, text, entry, script, table, medical, files, exit_status, run, now, i, features,
                   skipped_count, processed_count>>

\* the rest of the function: dropna, to_numeric, dropna, the show filter and
\* the loop that builds the features; returns the collection
FlexBuild(which) ==
    /\ script = FLEX
    /\ pc = IF which = "solar" THEN "solar_build" ELSE "medical_build"
    /\ LET sheet == SheetOf(which)
           columns == LoweredColumns(sheet.header)
       IN  geojsons' = [geojsons EXCEPT ![which] =
                FlexFeatures(columns, DataFrameRows(columns, sheet.rows), lat_col, lon_col)]
    /\ pc' = NextPc(which)
    /\ UNCHANGED <<given, text, entry, script, table, medical, files, exit_status, run, now, i, features,
                   skipped_count, processed_count, lat_col, lon_col>>

\* main: the three json.dump calls
FlexMainWrite ==
    /\ script = FLEX
    /\ pc = "write"
    /\ files' = [p \in Paths(script) |->
                    WriteFile(files[p],
                        IF p = "data/solar.geojson" THEN GeoJson(geojsons.solar, <<>>)
                        ELSE IF p = "data/medical.geojson"
                             THEN GeoJson(geojsons.medical, <<>>)
                             ELSE GeoJson(geojsons.solar \o geojsons.medical, <<>>))]
    /\ pc' = "done"
    /\ exit_status' = 0
    /\ UNCHANGED <<given, text, entry, script, table, medical, run, now, i, features,
                   skipped_count, processed_count, lat_col, lon_col, geojsons>>

\* ------------------------------------------------------------ running again
\* The program is started again, later, on the same source; the files stay.
Restart ==
    /\ pc = "done"
    /\ run < MaxRuns
    /\ run' = run + 1
    /\ now' = now + 1
    /\ pc' = FirstPc(script)
    /\ exit_status' = RUNNING
    /\ i' = 0
    /\ features' = <<>>
    /\ skipped_count' = 0
    /\ processed_count' = 0
    /\ lat_col' = PyNone
    /\ lon_col' = PyNone
    /\ geojsons' = [solar |-> <<>>, medical |-> <<>>]
    /\ UNCHANGED <<given, text, entry, script, table, medical, files>>

Next ==
    \/ MarathonOpen
    \/ MarathonRow
    \/ MarathonWrite
    \/ FetchGet
    \/ FetchRow
    \/ FetchReturn
    \/ FetchMainWrite
    \/ \E which \in {"solar", "medical"} : FlexFind(which)
    \/ \E which \in {"solar", "medical"} : FlexBuild(which)
    \/ FlexMainWrite
    \/ Restart

Spec == Init /\ [][Next]_vars

\* ================================================================ properties
Marathon == script \in {CONVERT, DOWNLOAD}

\* Every feature a converter holds or has written, with the sheet it was built
\* from: <<sheet, feature>>.
Emitted ==
    IF script = FLEX
    THEN {<<table, f>> : f \in Range(geojsons.solar)
                             \cup Range(files["data/solar.geojson"].features)}
         \cup {<<medical, f>> : f \in Range(geojsons.medical)
                                  \cup Range(files["data/medical.geojson"].features)}
    ELSE {<<table, f>> : f \in Range(features)
                             \cup UNION {Range(files[p].features) : p \in Paths(script)}}

\* the csv.DictReader row a marathon feature was built from
SourceRow(e) == DictReader(e[1].header, e[1].rows[e[2].row_num])

\* the DataFrame row a feature of the pandas scripts was built from
SourceFrameRow(e, columns) == DataFrameRows(columns, e[1].rows)[e[2].row_num]

SomeFeatureWritten == \E p \in Paths(script) : files[p].features # <<>>

\* ------------------------------------------------------------------- C1
\* C1: a row whose filter cell ('show?' in the marathon converters, 'show' in
\* the solar/medical converter when the sheet has that column) is present
\* and, trimmed and upper-cased, is not exactly "TRUE" never has a Feature
\* in the output: every emitted Feature comes from a row whose flag is TRUE.
C1_FilteredRowsNeverEmitted ==
    \A e \in Emitted :
        IF Marathon
        THEN LET row == SourceRow(e)
             IN  (COL_SHOWQ \in DOMAIN row /\ row[COL_SHOWQ] # PyNone)
                    => Upper(Strip(row[COL_SHOWQ])) = S_TRUE
        ELSE IF script = FLEX
        THEN LET columns == LoweredColumns(e[1].header)
                 cell == SourceFrameRow(e, columns)[COL_SHOW]
             IN  COL_SHOW \in Range(columns)
                    => /\ cell # NaNCell
                       /\ Upper(Strip(cell)) = S_TRUE
        ELSE TRUE

\* a finished marathon run that wrote a feature from a sheet holding a line
\* whose flag is present and not TRUE
C1_Witness ==
    /\ Marathon
    /\ pc = "done" /\ exit_status = 0
    /\ SomeFeatureWritten
    /\ \E k \in 1..Len(table.rows) :
          LET row == DictReader(table.header, table.rows[k])
          IN  row[COL_SHOWQ] # PyNone /\ Upper(Strip(row[COL_SHOWQ])) # S_TRUE

\* ------------------------------------------------------------------- C2
\* C2: every Feature of every converter has latitude in [-90, 90] and
\* longitude in [-180, 180] (coordinates are [lon, lat]).
C2_CoordinatesInRange ==
    \A e \in Emitted :
        /\ e[2].coordinates[1].kind = "num"
        /\ e[2].coordinates[2].kind = "num"
        /\ InRange(e[2].coordinates[2], e[2].coordinates[1])

\* ------------------------------------------------------------------- C3
\* C3: the coordinates of every emitted Feature are [longitude, latitude] of
\* the row it was built from: the first element is read from the longitude
\* column, the second from the latitude column, whatever the order of the
\* two columns in the sheet.
C3_LonThenLat ==
    \A e \in Emitted :
        IF Marathon
        THEN e[2].coordinates = <<clean_coordinate(script, SourceRow(e)[COL_LON]),
                                  clean_coordinate(script, SourceRow(e)[COL_LAT])>>
        ELSE IF script = FETCH
        THEN LET row == SourceFrameRow(e, StrippedColumns(e[1].header))
             IN  e[2].coordinates = <<to_numeric(row[COL_LONGITUDE]),
                                      to_numeric(row[COL_LATITUDE])>>
        ELSE LET columns == LoweredColumns(e[1].header)
                 row == SourceFrameRow(e, columns)
                 found == FindCols(columns, Len(columns))
             IN  /\ IsLatName(found.lat_col)
                 /\ IsLonName(found.lon_col) /\ ~IsLatName(found.lon_col)
                 /\ e[2].coordinates = <<to_numeric(row[found.lon_col]),
                                         to_numeric(row[found.lat_col])>>

\* a written feature of a sheet that lists longitude before latitude, the two
\* values being different
C3_Witness ==
    /\ Marathon
    /\ pc = "done" /\ exit_status = 0
    /\ IndexOf(table.header, COL_LON) < IndexOf(table.header, COL_LAT)
    /\ \E p \in Paths(script) : \E f \in Range(files[p].features) :
          f.coordinates[1] # f.coordinates[2]

\* ------------------------------------------------------------------- C4
\* C4: in the marathon converters a row reaches feature assembly only if Name
\* and City, after clean_text, are non-empty and not '#REF!': every emitted
\* Feature has such properties.name and properties.city, and a row that gets
\* as far as this check and fails it adds one to skipped_count and appends
\* nothing.
C4_EmittedHaveRequired ==
    Marathon =>
        \A e \in Emitted :
            /\ e[2].properties.name \notin {<<>>, S_REF}
            /\ e[2].properties.city \notin {<<>>, S_REF}
            /\ e[2].properties.name = clean_text(script, SourceRow(e)[COL_NAME])
            /\ e[2].properties.city = clean_text(script, SourceRow(e)[COL_CITY])

\* the line the loop is about to consume passes the flag and coordinate checks
\* and fails the required-field check
FailsRequiredNext ==
    /\ Marathon /\ pc = "loop" /\ i < Len(table.rows)
    /\ LET row == DictReader(table.header, table.rows[i + 1])
       IN  /\ row[COL_SHOWQ] # PyNone /\ ShowIsTrue(row)
           /\ row[COL_LAT] # PyNone /\ row[COL_LON] # PyNone
           /\ clean_coordinate(script, row[COL_LAT]).kind # "none"
           /\ clean_coordinate(script, row[COL_LON]).kind # "none"
           /\ \/ clean_text(script, Get(row, COL_NAME)) \in {<<>>, S_REF}
              \/ clean_text(script, Get(row, COL_CITY)) \in {<<>>, S_REF}

C4_RequiredFields ==
    /\ []C4_EmittedHaveRequired
    /\ [][FailsRequiredNext =>
            /\ skipped_count' = skipped_count + 1
            /\ features' = features
            /\ pc' = "loop"]_vars

\* a finished run that wrote a feature and skipped a line whose name is the
\* sentinel
C4_Witness ==
    /\ Marathon
    /\ pc = "done" /\ exit_status = 0
    /\ SomeFeatureWritten
    /\ skipped_count >= 1
    /\ \E k \in 1..Len(table.rows) :
          LET row == DictReader(table.header, table.rows[k])
          IN  /\ row[COL_SHOWQ] # PyNone /\ ShowIsTrue(row)
              /\ clean_text(script, Get(row, COL_NAME)) = S_REF

\* ------------------------------------------------------------------- C5
\* C5: parse_date gives "" for an empty input, "y-mm-dd" (month and day
\* padded to two digits) for an input d/m/y with exactly three parts, and the
\* input itself when it holds no '/'; so the date of every Feature is a
\* string.
C5_ParseDateAsSpecified ==
    Marathon =>
        \A e \in Emitted :
            LET d == SourceRow(e)[COL_DATE]
                out == e[2].properties.date
                parts == Split(d, "/")
            IN  /\ out # PyNone
                /\ d # PyNone =>
                    /\ d = <<>> => out = <<>>
                    /\ (Contains(d, <<"/">>) /\ Len(parts) = 3) =>
                          out = parts[3] \o <<"-">> \o Zfill2(parts[2])
                                         \o <<"-">> \o Zfill2(parts[1])
                    /\ ~Contains(d, <<"/">>) => out = d

\* ------------------------------------------------------------------- C6
\* C6: a problem in one row never aborts the run: once the table has been
\* obtained, the run consumes every line, exits with status 0 and writes the
\* collection.
C6_RowsNeverAbort ==
    (script \in {CONVERT, DOWNLOAD, FETCH} /\ table.status = OK /\ pc = "done") =>
        /\ exit_status = 0
        /\ i = Len(table.rows)
        /\ \A p \in Paths(script) : files[p].kind = "geojson"

\* ------------------------------------------------------------------- C7
\* C7: when the table cannot be obtained the run ends with a non-zero status
\* and writes nothing: the output files are as they were.
C7_NoTableNoOutput ==
    table.status # OK =>
        /\ \A p \in Paths(script) : files[p].kind # "geojson"
        /\ pc = "done" => exit_status # 0

\* ------------------------------------------------------------------- C8
\* C8: the features are an order-preserving subsequence of the input rows:
\* the lines the features were built from are strictly increasing (so no
\* line yields two features and input order is kept), and they are exactly
\* the lines consumed so far that pass every check of the converter.
Retained(k) ==
    IF Marathon
    THEN MarathonOutcome(script, DictReader(table.header, table.rows[k])) = "append"
    ELSE FetchOutcome(StrippedColumns(table.header),
                      DataFrameRows(StrippedColumns(table.header), table.rows)[k])
            = "append"

IsOrderedSubsequence(fs, n) ==
    /\ \A j \in 1..Len(fs) : fs[j].row_num \in 1..n
    /\ \A j \in 1..(Len(fs) - 1) : fs[j].row_num < fs[j + 1].row_num
    /\ {fs[j].row_num : j \in 1..Len(fs)} = {k \in 1..n : Retained(k)}

C8_OrderPreservingSubsequence ==
    script \in {CONVERT, DOWNLOAD, FETCH} =>
        /\ IsOrderedSubsequence(features, i)
        /\ \A p \in Paths(script) :
              files[p].kind = "geojson" =>
                  IsOrderedSubsequence(files[p].features, Len(table.rows))

\* a written collection of two features
C8_Witness ==
    /\ script \in {CONVERT, DOWNLOAD, FETCH}
    /\ pc = "done" /\ exit_status = 0
    /\ \E p \in Paths(script) : Len(files[p].features) >= 2

\* ------------------------------------------------------------------- C9
\* C9 as stated: a second run on the same table leaves every output file
\* exactly as the first run wrote it (features, properties and metadata).
C9_SecondRunSameFile ==
    [][\A p \in Paths(script) :
          files[p].kind = "geojson" => files'[p] = files[p]]_vars

\* C9, amended: a second run on the same table writes the same features and
\* properties, and the same metadata apart from metadata.last_updated, the
\* time of the run; the file is replaced, never appended to.
SameButTimestamp(m1, m2) ==
    /\ Len(m1) = Len(m2)
    /\ \A j \in 1..Len(m1) :
          /\ m1[j].source = m2[j].source
          /\ m1[j].total_features = m2[j].total_features

C9_SecondRunSameFeatures ==
    [][\A p \in Paths(script) :
          files[p].kind = "geojson" =>
              /\ files'[p].kind = "geojson"
              /\ files'[p].features = files[p].features
              /\ SameButTimestamp(files'[p].metadata, files[p].metadata)]_vars

\* the updater has finished a second run over a file its first run wrote
C9_Witness ==
    /\ script = DOWNLOAD
    /\ run = 2
    /\ pc = "done" /\ exit_status = 0
    /\ SomeFeatureWritten
    /\ \A p \in Paths(script) : files[p].metadata[1].last_updated = now

\* ------------------------------------------------------------------- C10
\* C10: in the solar/medical converter lat_col is the first column, in column
\* order, whose lower-cased name contains 'lat', and lon_col the first whose
\* name contains 'lon' or 'lng'.
FirstMatching(columns, Matches(_)) ==
    columns[CHOOSE k \in 1..Len(columns) :
                /\ Matches(columns[k])
                /\ \A j \in 1..(k - 1) : ~Matches(columns[j])]

C10_FirstMatchChosen ==
    (script = FLEX /\ pc \in {"solar_build", "medical_build"}) =>
        LET sheet == IF pc = "solar_build" THEN table ELSE medical
            columns == LoweredColumns(sheet.header)
        IN  /\ lat_col = FirstMatching(columns, IsLatName)
            /\ lon_col = FirstMatching(columns, IsLonName)

\* ------------------------------------------------------------------- C11
\* C11: row accounting in the marathon converters.  At every iteration
\* boundary of the row loop, and when the run has completed, each line
\* consumed has been counted exactly once: processed_count + skipped_count
\* is the number of lines consumed and processed_count is len(features).  A
\* line that fails a check (flag not TRUE, invalid coordinates, missing or
\* sentinel name or city) adds exactly one to skipped_count and appends
\* nothing; a line that passes adds one to processed_count and one feature.
\* metadata.total_features, where written, is the number of features in the
\* collection.
NextOutcome ==
    MarathonOutcome(script, DictReader(table.header, table.rows[i + 1]))

C11_Counts ==
    Marathon =>
        /\ processed_count = Len(features)
        /\ (pc = "loop" \/ (pc = "done" /\ exit_status = 0)) =>
              /\ processed_count + skipped_count = i
              /\ skipped_count =
                    Cardinality({k \in 1..i :
                        MarathonOutcome(script,
                            DictReader(table.header, table.rows[k]))
                          \in {"skip_show", "skip_coords", "skip_required"}})
        /\ \A p \in Paths(script) : \A j \in 1..Len(files[p].metadata) :
              files[p].metadata[j].total_features = Len(files[p].features)

C11_Step ==
    (Marathon /\ pc = "loop" /\ i < Len(table.rows) /\ i' = i + 1) =>
        /\ NextOutcome \in {"skip_show", "skip_coords", "skip_required"} =>
              /\ skipped_count' = skipped_count + 1
              /\ processed_count' = processed_count
              /\ features' = features
        /\ NextOutcome = "append" =>
              /\ skipped_count' = skipped_count
              /\ processed_count' = processed_count + 1
              /\ Len(features') = Len(features) + 1

C11_RowAccounting == []C11_Counts /\ [][C11_Step]_vars

\* the updater has completed a run in which one line was skipped by the flag
\* and another became a feature, and has written the count
C11_Witness ==
    /\ script = DOWNLOAD
    /\ pc = "done" /\ exit_status = 0
    /\ processed_count = 1 /\ skipped_count = 1
    /\ \E k \in 1..Len(table.rows) :
          MarathonOutcome(script, DictReader(table.header, table.rows[k])) = "skip_show"
    /\ \A p \in Paths(script) : files[p].metadata[1].total_features = 1

\* ================================================ clean_text, line by line
\* A call of clean_text on its own: the argument is drawn from the texts made
\* of at most MaxParts pieces of the corrupted sequences the table names.
FragmentsConvert ==
    {<<"U00E2", "U20AC">>, <<"U00E2">>, <<"U20AC">>, <<"\"">>, <<"U2122">>,
     <<"U0153">>, <<"U00C3", "U00A9">>, <<" ">>}

FragmentsDownload ==
    {<<"U221A", "U00A2">>, <<"U221A">>, <<"U00A2">>, <<"U201A", "U00C7", "U00A8">>,
     <<"\"">>, <<"U201A", "U00D1", "U00A2">>, <<"U2248", "U00EC">>,
     <<"U00C9", "U00AC", "U00A9">>}

RECURSIVE Flatten(_)
Flatten(parts) == IF parts = <<>> THEN <<>> ELSE Head(parts) \o Flatten(Tail(parts))

Texts(s) ==
    {Flatten(q) : q \in SeqsUpTo(IF s = CONVERT THEN FragmentsConvert
                                 ELSE FragmentsDownload, MaxParts)}

InitText ==
    /\ script \in {CONVERT, DOWNLOAD}
    /\ table = NoTable("unused")
    /\ medical = NoTable("unused")
    /\ files = [p \in Paths(script) |-> Absent]
    /\ pc = "clean_text"
    /\ exit_status = RUNNING
    /\ run = 1
    /\ now = 1
    /\ Locals
    /\ given \in Texts(script)
    /\ text = given
    /\ entry = 0

\* the next `text = text.replace(pattern, replacement)` line
CleanTextReplace ==
    /\ pc = "clean_text"
    /\ text # <<>> \/ entry > 0
    /\ entry < Len(Replacements(script))
    /\ text' = Replace(text, Replacements(script)[entry + 1][1],
                             Replacements(script)[entry + 1][2])
    /\ entry' = entry + 1
    /\ UNCHANGED <<given, script, table, medical, files, pc, exit_status, run, now, i,
                   features, skipped_count, processed_count, lat_col, lon_col, geojsons>>

\* `if not text: return ""` on entry, `return text.strip()` after the last line
CleanTextReturn ==
    /\ pc = "clean_text"
    /\ (entry = 0 /\ text = <<>>) \/ entry = Len(Replacements(script))
    /\ text' = Strip(text)
    /\ pc' = "returned"
    /\ UNCHANGED <<given, entry, script, table, medical, files, exit_status, run, now, i,
                   features, skipped_count, processed_count, lat_col, lon_col, geojsons>>

NextText == CleanTextReplace \/ CleanTextReturn

SpecText == InitText /\ [][NextText]_vars

\* ------------------------------------------------------------------- C12
\* C12: the table is applied in source order and some of its lines are dead.
\* Once the earlier, shorter pattern has been replaced (the right-quote line
\* in convert-marathons-to-geojson.py, the first line in
\* data/update-marathon-data.py), no later line whose pattern starts with
\* that pattern can match (the two dash lines; in data/update-marathon-data.py
\* also the apostrophe and the two quote lines): each of them leaves the text
\* as it was, whatever the input.
ShadowingEntry(s) == IF s = CONVERT THEN 11 ELSE 1
DeadEntries(s) == IF s = CONVERT THEN {12, 13} ELSE {10, 11, 12, 13, 14}

StartsWith(s, prefix) ==
    Len(prefix) <= Len(s) /\ SubSeq(s, 1, Len(prefix)) = prefix

C12_NoLaterMatch ==
    pc \in {"clean_text", "returned"} =>
        LET tbl == Replacements(script)
        IN  /\ DeadEntries(script) =
                  {k \in (ShadowingEntry(script) + 1)..Len(tbl) :
                      StartsWith(tbl[k][1], tbl[ShadowingEntry(script)][1])}
            /\ (pc = "clean_text" /\ entry >= ShadowingEntry(script)) =>
                  \A k \in DeadEntries(script) :
                      k > entry => ~Contains(text, tbl[k][1])

C12_DeadStep ==
    (pc = "clean_text" /\ pc' = "clean_text" /\ entry' \in DeadEntries(script))
        => (entry' = entry + 1 /\ text' = text)

C12_DeadEntries == []C12_NoLaterMatch /\ [][C12_DeadStep]_vars

\* the en-dash line of convert-marathons-to-geojson.py has run on an argument
\* that held its pattern, and found nothing to replace
C12_Witness ==
    /\ script = CONVERT
    /\ pc = "clean_text"
    /\ entry = 12
    /\ Contains(given, ReplacementsConvert[12][1])
    /\ ~Contains(text, ReplacementsConvert[12][2])

====
